---- MODULE Spec2Model ----
(***************************************************************************)
(* Classroom service of Manthan: the Express router of                     *)
(* routes/api/classrooms.js over a document store of Classroom records.    *)
(*                                                                         *)
(* The store is the Classroom collection in insertion order (the order in  *)
(* which findOne meets the documents).                                     *)
(*                                                                         *)
(* A step is what a handler does around one store operation: the handlers  *)
(* of PATCH /:code, DELETE /:code and DELETE /:code/:user await a findOne, *)
(* return to the event loop and later await their update, so each is a     *)
(* lookup step that leaves a continuation in inflight and a resume step    *)
(* that takes it out; steps of other requests run in between.  POST /      *)
(* starts newClassroom.save() without awaiting it and answers at once: the *)
(* document waits in saves until the insert lands or is rejected, which    *)
(* the handler never observes.  Awaited store operations do not fail.      *)
(* resp is the response sent by the last step (op "none" when the step     *)
(* sent none); nreq counts the requests received.                          *)
(*                                                                         *)
(* Spec starts from an empty collection.  POST /:code never adds a member  *)
(* (see JoinClassroom), so the only member a classroom ever has is its     *)
(* author.                                                                 *)
(***************************************************************************)
EXTENDS Naturals, Sequences, FiniteSets, Bags, TLC

\* Number of requests received in a behaviour.
MaxRequests == 3

\* Identities that have a User document.
Users == {"u1", "u2"}

\* An identity with a valid token but no User document.
NoAccount == "u0"

\* Identities the auth middleware can put in req.user.id.
Callers == Users \cup {NoAccount}

\* Values randomatic('aA0', 6) can return.
Codes == {"aB3dE9", "Xy7Zk2"}

\* Request bodies of POST / : (title, subject, subCode), and the cover.
CreateBodies == {<<"t1", "s1", "k1">>}
Cover == "img"

\* Request bodies of PATCH /:code : (title, subject, subcode); "" is empty.
PatchBodies ==
    {<<"t2", "s2", "k2">>, <<"", "s2", "">>}

VARIABLES store, nextId, saves, inflight, resp, nreq

vars == <<store, nextId, saves, inflight, resp, nreq>>

Range(s) == {s[i] : i \in 1..Len(s)}

\* Paths of the Classroom schema.
ClassroomFields ==
    {"_id", "code", "title", "subject", "subCode", "cover", "author", "joinedUsers"}

\* doc.name on a Classroom document: <<value>>, or <<>> for undefined.
Prop(doc, name) == IF name \in ClassroomFields THEN <<doc[name]>> ELSE <<>>

\* User.findById(id): <<id>> when the User document exists, <<>> for null.
UserFindById(id) == IF id \in Users THEN <<id>> ELSE <<>>

\* Index of the first document of s with the given code, 0 for null.
FindOneByCode(s, code) ==
    LET hits == {i \in 1..Len(s) : s[i].code = code}
    IN  IF hits = {} THEN 0 ELSE CHOOSE i \in hits : \A j \in hits : i <= j

\* Index of the first document of s with the given code that has user among
\* its joinedUsers, 0 for null.
FindOneByCodeAndMember(s, code, user) ==
    LET hits == {i \in 1..Len(s) :
                    s[i].code = code /\ user \in Range(s[i].joinedUsers)}
    IN  IF hits = {} THEN 0 ELSE CHOOSE i \in hits : \A j \in hits : i <= j

\* { $push: { joinedUsers: user } }
Push(doc, user) == [doc EXCEPT !.joinedUsers = Append(@, user)]

\* { $pull: { joinedUsers: { $in: user } } }: every occurrence of user goes.
Pull(doc, user) ==
    [doc EXCEPT !.joinedUsers = SelectSeq(@, LAMBDA u : u # user)]

\* { $set: upd }: paths that are not in the schema are dropped.
SetPaths(doc, upd) ==
    [f \in ClassroomFields |-> IF f \in DOMAIN upd THEN upd[f] ELSE doc[f]]

\* classroom.remove(): the document with that _id leaves the collection.
Remove(s, doc) == SelectSeq(s, LAMBDA d : d._id # doc._id)

\* An update document { $push | $pull | $set : arg } applied to a document.
ApplyUpdate(doc, update) ==
    CASE update.op = "$push" -> Push(doc, update.arg)
      [] update.op = "$pull" -> Pull(doc, update.arg)
      [] update.op = "$set" -> SetPaths(doc, update.arg)

\* findOneAndUpdate({ code }, update): the update is applied to the first
\* document with the code; nothing changes when there is none.
FindOneAndUpdate(s, code, update) ==
    LET i == FindOneByCode(s, code)
    IN  IF i = 0 THEN s ELSE [s EXCEPT ![i] = ApplyUpdate(s[i], update)]

\* A handler's outcome: the collection afterwards, and res.status(..) with
\* its body: { msg }, { errors } or a Classroom document (<<>> for none).
Out(s, status, msg, doc) ==
    [store |-> s, status |-> status, msg |-> msg, errors |-> {}, doc |-> doc]

OutErrors(s, errors) ==
    [store |-> s, status |-> 400, msg |-> "", errors |-> errors, doc |-> <<>>]

\* No response yet: the handler goes on, holding the classroom it found.
Continue(s, classroom) ==
    [store |-> s, status |-> 0, msg |-> "", errors |-> {}, doc |-> <<classroom>>]

\* new Classroom({ author, title, subject, subCode, cover, code, joinedUsers })
\* with joinedUsers = [author._id].
NewClassroom(id, author, title, subject, subCode, cover, code) ==
    [_id |-> id, author |-> author, title |-> title, subject |-> subject,
     subCode |-> subCode, cover |-> cover, code |-> code,
     joinedUsers |-> <<author>>]

\* POST / : create a classroom.  author._id on a null author throws.  The
\* response carries the new document; the collection is not touched here.
CreateClassroom(s, id, caller, title, subject, subCode, cover, code) ==
    LET author == UserFindById(caller)
    IN  IF author = <<>>
        THEN Out(s, 500, "Server Error", <<>>)
        ELSE Out(s, 200, "",
                 <<NewClassroom(id, author[1], title, subject, subCode, cover, code)>>)

\* The insert started by newClassroom.save() lands.
Insert(s, doc) == Append(s, doc)

\* GetClassroom with the joinedUsers condition left out of the query.
GetClassroomUngated(s, caller, code) ==
    LET i == FindOneByCode(s, code)
    IN  IF i = 0
        THEN Out(s, 400, "Class does not exist.", <<>>)
        ELSE Out(s, 200, "", <<s[i]>>)

\* GET /:code : get a classroom by code.
GetClassroom(s, caller, code) ==
    LET i == FindOneByCodeAndMember(s, code, caller)
    IN  IF i = 0
        THEN Out(s, 400, "Class does not exist.", <<>>)
        ELSE Out(s, 200, "", <<s[i]>>)

\* POST /:code : join a classroom by code.  classroom.users.find(..) on an
\* undefined classroom.users throws, so the handler never gets to its
\* findOneAndUpdate.
JoinClassroom(s, caller, code) ==
    LET i == FindOneByCode(s, code)
    IN  IF i = 0
        THEN Out(s, 400, "Class does not exist.", <<>>)
        ELSE LET users == Prop(s[i], "users")
             IN  IF users = <<>>
                 THEN Out(s, 500, "Server Error", <<>>)
                 ELSE IF caller \in Range(users[1])
                 THEN Out(s, 400, "Class already exist.", <<>>)
                 ELSE LET joined ==
                              FindOneAndUpdate(s, code, [op |-> "$push", arg |-> caller])
                      IN  Out(joined, 200, "", <<joined[i]>>)

\* check(field).notEmpty() on title, subject and subcode.
ValidationErrors(title, subject, subcode) ==
    {f \in {"title", "subject", "subcode"} :
        [title |-> title, subject |-> subject, subcode |-> subcode][f] = ""}

\* classroom.author._id != req.user.id
NotAuthor(classroom, caller) == classroom.author # caller

\* PATCH /:code up to its author test.
EditClassroomLookup(s, caller, code, title, subject, subcode) ==
    LET errors == ValidationErrors(title, subject, subcode)
        i == FindOneByCodeAndMember(s, code, caller)
    IN  IF errors # {}
        THEN OutErrors(s, errors)
        ELSE IF i = 0
        THEN Out(s, 400, "Class does not exist.", <<>>)
        ELSE IF NotAuthor(s[i], caller)
        THEN Out(s, 400, "User not authorized.", <<>>)
        ELSE Continue(s, s[i])

\* PATCH /:code from its findOneAndUpdate on: res.json(editedClass), which
\* is null when no classroom has the code any more.
EditClassroomUpdate(s, code, title, subject, subcode) ==
    LET upd == [title |-> title, subcode |-> subcode, subject |-> subject]
        i == FindOneByCode(s, code)
        edited == FindOneAndUpdate(s, code, [op |-> "$set", arg |-> upd])
    IN  Out(edited, 200, "", IF i = 0 THEN <<>> ELSE <<edited[i]>>)

\* DELETE /:code up to its lookup.
DeleteClassroomLookup(s, caller, code) ==
    LET i == FindOneByCodeAndMember(s, code, caller)
    IN  IF i = 0
        THEN Out(s, 400, "Class does not exist.", <<>>)
        ELSE Continue(s, s[i])

\* DELETE /:code from its author test on: the author removes the classroom
\* that was found, anyone else is pulled from the first classroom that has
\* the code now.
DeleteClassroomFinish(s, caller, code, classroom) ==
    IF ~NotAuthor(classroom, caller)
    THEN Out(Remove(s, classroom), 200, "Class deleted successfully.", <<>>)
    ELSE Out(FindOneAndUpdate(s, code, [op |-> "$pull", arg |-> caller]),
             200, "Class leaved successfully.", <<>>)

\* DELETE /:code/:user up to its author test.
RemoveUserLookup(s, caller, code) ==
    LET i == FindOneByCodeAndMember(s, code, caller)
    IN  IF i = 0
        THEN Out(s, 400, "Class does not exist.", <<>>)
        ELSE IF NotAuthor(s[i], caller)
        THEN Out(s, 400, "User not authorized.", <<>>)
        ELSE Continue(s, s[i])

\* DELETE /:code/:user from its findOneAndUpdate on; the result is ignored.
RemoveUserUpdate(s, code, user) ==
    Out(FindOneAndUpdate(s, code, [op |-> "$pull", arg |-> user]),
        200, "User Removed", <<>>)

\* A request and the response sent for it.
Resp(op, caller, code, user, body, out) ==
    [op |-> op, caller |-> caller, code |-> code, user |-> user, body |-> body,
     status |-> out.status, msg |-> out.msg, errors |-> out.errors,
     doc |-> out.doc]

NoOut == Out(<<>>, 0, "", <<>>)

\* No response was sent by the step.
Silent == Resp("none", "", "", "", <<>>, NoOut)

\* A handler between its lookup and its update.
Waiting(op, caller, code, user, body, classroom) ==
    [op |-> op, caller |-> caller, code |-> code, user |-> user, body |-> body,
     classroom |-> classroom]

\* One more request is received.
Receive == nreq < MaxRequests /\ nreq' = nreq + 1

\* After a lookup: either the response is sent, or the handler waits.
AfterLookup(op, caller, code, user, body, out) ==
    IF out.status = 0
    THEN /\ inflight' = inflight (+) SetToBag({Waiting(op, caller, code, user,
                                                       body, out.doc[1])})
         /\ resp' = Silent
    ELSE /\ inflight' = inflight
         /\ resp' = Resp(op, caller, code, user, body, out)

Init ==
    /\ store = <<>>
    /\ nextId = 1
    /\ saves = {}
    /\ inflight = EmptyBag
    /\ resp = Silent
    /\ nreq = 0

Create(caller, body, code) ==
    LET out == CreateClassroom(store, nextId, caller,
                               body[1], body[2], body[3], Cover, code)
    IN  /\ Receive
        /\ nextId' = IF out.status = 200 THEN nextId + 1 ELSE nextId
        /\ saves' = saves \cup Range(out.doc)
        /\ resp' = Resp("create", caller, code, "", body, out)
        /\ UNCHANGED <<store, inflight>>

SaveInsert(doc) ==
    /\ UNCHANGED nreq
    /\ doc \in saves
    /\ store' = Insert(store, doc)
    /\ saves' = saves \ {doc}
    /\ resp' = Silent
    /\ UNCHANGED <<nextId, inflight>>

SaveReject(doc) ==
    /\ UNCHANGED nreq
    /\ doc \in saves
    /\ saves' = saves \ {doc}
    /\ resp' = Silent
    /\ UNCHANGED <<store, nextId, inflight>>

Get(caller, code) ==
    LET out == GetClassroom(store, caller, code)
    IN  /\ Receive
        /\ store' = out.store
        /\ resp' = Resp("get", caller, code, "", <<>>, out)
        /\ UNCHANGED <<nextId, saves, inflight>>

Join(caller, code) ==
    LET out == JoinClassroom(store, caller, code)
    IN  /\ Receive
        /\ store' = out.store
        /\ resp' = Resp("join", caller, code, "", <<>>, out)
        /\ UNCHANGED <<nextId, saves, inflight>>

Edit(caller, code, body) ==
    LET out == EditClassroomLookup(store, caller, code, body[1], body[2], body[3])
    IN  /\ Receive
        /\ AfterLookup("edit", caller, code, "", body, out)
        /\ UNCHANGED <<store, nextId, saves>>

EditResume(w) ==
    LET out == EditClassroomUpdate(store, w.code, w.body[1], w.body[2], w.body[3])
    IN  /\ UNCHANGED nreq
        /\ w.op = "edit"
        /\ BagIn(w, inflight)
        /\ inflight' = inflight (-) SetToBag({w})
        /\ store' = out.store
        /\ resp' = Resp("edit", w.caller, w.code, "", w.body, out)
        /\ UNCHANGED <<nextId, saves>>

Delete(caller, code) ==
    LET out == DeleteClassroomLookup(store, caller, code)
    IN  /\ Receive
        /\ AfterLookup("delete", caller, code, "", <<>>, out)
        /\ UNCHANGED <<store, nextId, saves>>

DeleteResume(w) ==
    LET out == DeleteClassroomFinish(store, w.caller, w.code, w.classroom)
    IN  /\ UNCHANGED nreq
        /\ w.op = "delete"
        /\ BagIn(w, inflight)
        /\ inflight' = inflight (-) SetToBag({w})
        /\ store' = out.store
        /\ resp' = Resp("delete", w.caller, w.code, "", <<>>, out)
        /\ UNCHANGED <<nextId, saves>>

RemoveMember(caller, code, user) ==
    LET out == RemoveUserLookup(store, caller, code)
    IN  /\ Receive
        /\ AfterLookup("remove", caller, code, user, <<>>, out)
        /\ UNCHANGED <<store, nextId, saves>>

RemoveMemberResume(w) ==
    LET out == RemoveUserUpdate(store, w.code, w.user)
    IN  /\ UNCHANGED nreq
        /\ w.op = "remove"
        /\ BagIn(w, inflight)
        /\ inflight' = inflight (-) SetToBag({w})
        /\ store' = out.store
        /\ resp' = Resp("remove", w.caller, w.code, w.user, <<>>, out)
        /\ UNCHANGED <<nextId, saves>>

Next ==
    \/ \E caller \in Callers, body \in CreateBodies, code \in Codes :
          Create(caller, body, code)
    \/ \E doc \in saves : SaveInsert(doc)
    \/ \E doc \in saves : SaveReject(doc)
    \/ \E caller \in Callers, code \in Codes : Get(caller, code)
    \/ \E caller \in Callers, code \in Codes : Join(caller, code)
    \/ \E caller \in Callers, code \in Codes, body \in PatchBodies :
          Edit(caller, code, body)
    \/ \E w \in BagToSet(inflight) : EditResume(w)
    \/ \E caller \in Callers, code \in Codes : Delete(caller, code)
    \/ \E w \in BagToSet(inflight) : DeleteResume(w)
    \/ \E caller \in Callers, code \in Codes, user \in Callers :
          RemoveMember(caller, code, user)
    \/ \E w \in BagToSet(inflight) : RemoveMemberResume(w)

Spec == Init /\ [][Next]_vars

----------------------------------------------------------------------------
\* Vocabulary of the properties.

Members(doc) == Range(doc.joinedUsers)

ValidBody(body) == ValidationErrors(body[1], body[2], body[3]) = {}

\* The classrooms with the given code that have user among their members.
ClassroomsOf(s, code, user) ==
    {d \in Range(s) : d.code = code /\ user \in Members(d)}

----------------------------------------------------------------------------
\* C1: when a create is answered with 200, the returned classroom has the
\* caller as author and exactly <<caller>> as joinedUsers, carries the
\* submitted title, subject, subCode and cover, and that record is in the
\* store.
C1_CreatePersistsReturned ==
    (resp.op = "create" /\ resp.status = 200) =>
        /\ Len(resp.doc) = 1
        /\ resp.doc[1].author = resp.caller
        /\ resp.doc[1].joinedUsers = <<resp.caller>>
        /\ <<resp.doc[1].title, resp.doc[1].subject, resp.doc[1].subCode>>
              = resp.body
        /\ resp.doc[1].cover = Cover
        /\ resp.doc[1] \in Range(store)

\* C2: joining an existing classroom the caller is not a member of succeeds
\* with 200, appends the caller to that classroom's joinedUsers and returns
\* the updated record; nothing else in the store changes.
C2_JoinAppendsCaller ==
    [][\A caller \in Callers, code \in Codes :
          LET i == FindOneByCode(store, code)
          IN  (Join(caller, code) /\ i # 0 /\ caller \notin Members(store[i]))
              => /\ resp'.status = 200
                 /\ store' = [store EXCEPT ![i] = Push(@, caller)]
                 /\ resp'.doc = <<store'[i]>>]_vars

\* C3: joining a classroom the caller already belongs to answers 400 with a
\* { msg } body and leaves the store unchanged.
C3_JoinTwiceConflict ==
    [][\A caller \in Callers, code \in Codes :
          LET i == FindOneByCode(store, code)
          IN  (Join(caller, code) /\ i # 0 /\ caller \in Members(store[i]))
              => /\ resp'.status = 400
                 /\ resp'.msg # ""
                 /\ store' = store]_vars

\* C4: get-by-code returns a record only when a classroom with that code has
\* the caller among its joinedUsers, and then returns such a classroom; in
\* every other case, whether the code is unknown or the caller is not a
\* member, the answer is the same 400 'Class does not exist.'; the store is
\* unchanged.
C4_GetMembershipGated ==
    [][\A caller \in Callers, code \in Codes :
          Get(caller, code)
          => /\ store' = store
             /\ IF ClassroomsOf(store, code, caller) # {}
                THEN /\ resp'.status = 200
                     /\ Len(resp'.doc) = 1
                     /\ resp'.doc[1] \in ClassroomsOf(store, code, caller)
                ELSE /\ resp'.status = 400
                     /\ resp'.msg = "Class does not exist."
                     /\ resp'.doc = <<>>]_vars

C4_Witness ==
    /\ resp.op = "get"
    /\ resp.status = 400
    /\ \E d \in Range(store) : d.code = resp.code /\ resp.caller \notin Members(d)

\* C5: an edit or a remove-member request from a member who is not the
\* author is answered 'User not authorized.' and changes nothing; so
\* whenever a classroom loses a member, the request that did it came from
\* that member or from the classroom's author.
C5_NonAuthorRefused ==
    [][/\ \A caller \in Callers, code \in Codes :
             (\E d \in ClassroomsOf(store, code, caller) : d.author # caller)
             => /\ \A body \in PatchBodies :
                      (Edit(caller, code, body) /\ ValidBody(body))
                      => /\ resp'.msg = "User not authorized."
                         /\ store' = store /\ inflight' = inflight
                /\ \A user \in Callers :
                      RemoveMember(caller, code, user)
                      => /\ resp'.msg = "User not authorized."
                         /\ store' = store /\ inflight' = inflight
       /\ \A d \in Range(store), e \in Range(store') :
             d._id = e._id
             => \A m \in Members(d) \ Members(e) :
                   resp'.caller = m \/ resp'.caller = d.author]_vars

\* C6: an edit by the author with non-empty title, subject and subcode is
\* answered 200 with the updated record; the classroom found for the
\* request is then stored with the submitted title, subject and subCode and
\* its code, author and joinedUsers as they were, and every member gets the
\* submitted values from get-by-code.
C6_EditUpdatesMetadata ==
    [][\A w \in BagToSet(inflight) :
          EditResume(w)
          => /\ resp'.status = 200
             /\ \E i \in 1..Len(store') :
                   /\ store'[i] = [w.classroom EXCEPT !.title = w.body[1],
                                                      !.subject = w.body[2],
                                                      !.subCode = w.body[3]]
                   /\ resp'.doc = <<store'[i]>>
             /\ \A m \in Members(w.classroom) :
                   LET got == GetClassroom(store', m, w.code)
                   IN  /\ got.status = 200
                       /\ <<got.doc[1].title, got.doc[1].subject,
                            got.doc[1].subCode>> = w.body]_vars

\* C7: a delete by the author is answered 'Class deleted successfully.',
\* removes that record and no other from the store, and afterwards
\* get-by-code with that code answers not-found to the author and to every
\* former member.
C7_AuthorDeleteRemoves ==
    [][\A w \in BagToSet(inflight) :
          (DeleteResume(w) /\ w.classroom.author = w.caller)
          => /\ resp'.msg = "Class deleted successfully."
             /\ store' = Remove(store, w.classroom)
             /\ \A m \in Members(w.classroom) \cup {w.caller} :
                   GetClassroom(store', m, w.code).status = 400]_vars

\* C9: every classroom in the store has its author among its joinedUsers.
C9_AuthorIsMember ==
    \A d \in Range(store) : d.author \in Members(d)

\* C10: no two classrooms in the store have the same code.
C10_CodeUnique ==
    \A i, j \in 1..Len(store) : i # j => store[i].code # store[j].code

====
